---- MODULE Spec2Model ----
(***************************************************************************)
(* State-machine model of the iterative subspace solver                    *)
(* (molpro::linalg::IterativeSolver and its variants LinearEigensystem,     *)
(* LinearEquations, DIIS, Optimize), of xspace::check_conditioning, of the  *)
(* XSpace dimension bookkeeping, and of wrap, find_ref and remove_elements. *)
(*                                                                         *)
(* Large vectors and floating-point values are abstracted:                 *)
(*  - a Q entry is [key, kind, root]: its key in the Q space, whether it is *)
(*    a difference vector ("d") or a converged solution ("s"), and the root *)
(*    it was made for;                                                      *)
(*  - residual norms, singular values and singular-vector coefficients are  *)
(*    inputs of the operations, drawn from small ordered sets of levels     *)
(*    that keep every comparison the code makes against its thresholds.     *)
(* A public operation is a sequence of steps ordered by pc: its entry, the  *)
(* passes of buildSubspace (one per recursive call), and its finish.  No    *)
(* other operation can start while pc is not "idle".                        *)
(***************************************************************************)
EXTENDS Integers, Sequences, FiniteSets, TLC

VARIABLES
  variant,                \* which solver class was constructed
  m_roots,                \* number of roots
  m_working_set,          \* sequence of roots being tracked
  m_errors,               \* sequence of error levels, one per root
  m_qspace,               \* the Q space: sequence of entries [key, kind, root]
  m_index,                \* next key the Q space hands out
  m_q_solutions,          \* root -> key of the Q entry holding its converged solution
  m_last_d,               \* pending solutions of the last iteration
  m_last_hd,              \* pending actions of the last iteration
  m_current_r,            \* number of vectors of the current working space
  m_s_rr,                 \* number of rows of the R-R interaction block
  m_interpolation,        \* [rows, cols] of the interpolation matrix
  m_pspace,               \* number of P vectors
  m_iterations,           \* iteration counter
  m_nullify_solution_before_update,
  m_linesearch_steplength,\* 0: quasi-Newton step, 1: a line-search step is pending
  m_values,               \* the stored objective-function values
  m_best_f,               \* Optimize: objective value of the cached best iterate
  m_strong_Wolfe,         \* Optimize: whether the strong Wolfe conditions are used
  wolfe_test,             \* Optimize: what the last solveReducedProblem saw and decided
  steps,                  \* the steps the last addVector ran after solveReducedProblem
  pc,                     \* position inside the running operation
  ctx,                    \* the running operation: its name, the size of the caller's
                          \* buffers, and the working set, Q space, errors, number of
                          \* stored values and the outcome of the operation before, as
                          \* they were at its entry
  last,                   \* how the last operation ended
  ret,                    \* value returned by the last operation
  ever_ws,                \* roots that have been in the working set of add_vector
  cond,                   \* what the last pass of the conditioning found
  interpolated,           \* the P, Q, R vectors the last doInterpolation combined
  \* xspace::check_conditioning
  c_pc,                   \* position in check_conditioning: "while", "body", "done"
  c_stable,               \* its local variable stable
  c_nq,                   \* number of vectors in the Q space
  c_candidates,           \* the Q vectors that may be modified
  c_svd,                  \* the singular system of the overlap matrix as it stands
  \* subspace dimensions
  dims,                   \* a value of xspace::Dimensions
  xs_pspace,              \* XSpace: number of vectors in pspace
  xs_qspace,              \* XSpace: number of vectors in qspace
  xs_dspace,              \* XSpace: number of vectors in dspace
  xs_data,                \* XSpace: number of rows (and columns) of the H and S data
  m_dim,                  \* XSpace::m_dim
  xs_pc,                  \* "ready", or "aborted" once an assertion of XSpace has failed
                          \* or an operation has crashed
  xs_last,                \* the call of XSpace::erase that has just returned: its
                          \* argument and the sizes it found
  \* wrap.h
  params,                 \* the caller's vector: params[i] is the value of element i - 1
  wparams,                \* a vector of references, each the address of an element
  found,                  \* the last call of find_ref: its arguments and its result
  removed,                \* the last call of remove_elements: its arguments and result
  \* diagonalizeSubspaceMatrix: the sort of the eigenpairs
  m_subspaceEigenvalues,  \* sequence of eigenvalues [re, im]
  m_subspaceEigenvectors, \* sequence of eigenvector columns, each named by a number
  eigval,                 \* the copy of the eigenvalues the sort reads
  eigvec,                 \* the copy of the eigenvectors the sort reads
  sort_done,              \* whether the sort has run
  \* the C facade (IterativeSolverC)
  instances,              \* the stack of instances, the top one last
  n_initialized,          \* number of Initialize calls so far
  f_last,                 \* the facade call that has just ended, and how
  f_popped,               \* the instance the last IterativeSolverFinalize removed
  f_pc,                   \* "ready", or what undefined behaviour has led to
  le_rhs,                 \* the right-hand sides handed to the LinearEquations constructors
  le_augmented_hessian,   \* the augmented_hessian argument handed to them
  le_solvers              \* the solver each constructor called so far has made

solverVars == <<variant, m_roots, m_working_set, m_errors, m_qspace, m_index, m_q_solutions,
                m_last_d, m_last_hd, m_current_r, m_s_rr, m_interpolation, m_pspace,
                m_iterations, m_nullify_solution_before_update, m_linesearch_steplength,
                m_values, m_best_f, m_strong_Wolfe, wolfe_test, steps,
                pc, ctx, last, ret, ever_ws, cond, interpolated>>
condVars == <<c_pc, c_stable, c_nq, c_candidates, c_svd>>
dimVars == <<dims, xs_pspace, xs_qspace, xs_dspace, xs_data, m_dim, xs_pc, xs_last>>
wrapVars == <<params, wparams, found, removed>>
sortVars == <<m_subspaceEigenvalues, m_subspaceEigenvectors, eigval, eigvec, sort_done>>
facadeVars == <<instances, n_initialized, f_last, f_popped, f_pc>>
ctorVars == <<le_rhs, le_augmented_hessian, le_solvers>>
vars == <<solverVars, condVars, dimVars, wrapVars, sortVars, facadeVars, ctorVars>>

----------------------------------------------------------------------------
(* Bounds of the model *)

MaxBuf == 2        \* largest number of vectors a caller passes in a buffer
MaxIter == 2       \* add_vector calls that get past the early return
MaxValueIter == 3  \* the same for the add_value calls of Optimize
MaxP == 1          \* largest number of P vectors
MaxErr == 1        \* largest error level a residual norm is drawn from
MaxSv == 4         \* largest singular-value level
MaxCoef == 2       \* largest singular-vector coefficient level
m_maxQ == 1        \* maximum size of Q space (configurable member)
MaxCondQ == 3      \* largest Q space check_conditioning starts from
MaxNorm == 2       \* largest level of a candidate's weight
MaxDim == 2        \* largest size of a block of the subspace
MaxF == 1          \* largest objective-function value a caller passes
MaxG == 1          \* largest size of a projected gradient, in units of m_thresh
MaxLen == 3        \* longest vector handed to wrap, find_ref and remove_elements
MaxVal == 1        \* largest value of an element of such a vector
MaxEig == 3        \* largest number of eigenpairs handed to the sort
MaxRe == 2         \* largest real part of an eigenvalue
MaxIm == 1         \* largest imaginary part of an eigenvalue
MaxInit == 3       \* largest number of Initialize calls of the facade
MaxCalls == 2      \* largest number of updating calls one instance receives
MaxRhs == 2        \* largest number of right-hand sides handed to a constructor
MaxAug == 3        \* largest augmented_hessian level handed to a constructor

(* Program constants, as levels of the abstracted scales *)

m_thresh == 1                 \* convergence threshold: error level 0 is below it
ResetError == 9               \* the 1e20 assigned to every error after an eviction
OptimizeSingularity == 0      \* Optimize: m_singularity_threshold = 0
m_svdThreshold == 1           \* 1e-15, DIIS takes it as singularity threshold
m_singularity_threshold == 2  \* 1e-5, the default
ForcedThreshold == 3          \* 1e6, in force when nQ > m_maxQ
CoefThreshold == 0            \* 1e-3: coefficient level 0 is not above it
norm_threshold == 1           \* check_conditioning: weight level 1 is equal to it
m_Wolfe_1_num == 1            \* m_Wolfe_1 = 0.0001 = m_Wolfe_1_num / m_Wolfe_1_den
m_Wolfe_1_den == 10000
m_Wolfe_2_num == 9            \* m_Wolfe_2 = 0.9 = m_Wolfe_2_num / m_Wolfe_2_den
m_Wolfe_2_den == 10

NoKey == -1
NoValue == -1                 \* m_best_f before the first iterate is cached
\* "LinEq" is a LinearEquations made from a vectorSet or from a single vector,
\* "LinEqRefs" one made from a constVectorRefSet
Variants == {"Eigen", "LinEq", "LinEqRefs", "DIIS", "Optimize"}
Roots == 0 .. MaxBuf - 1
ErrVals == 0 .. MaxErr
SvLevels == 0 .. MaxSv
FLevels == 0 .. MaxF
GLevels == (0 - MaxG) .. MaxG

----------------------------------------------------------------------------
(* Configuration set by the constructors *)

Linear(v) == v \in {"Eigen", "LinEq", "LinEqRefs"}
ResidualEigen(v) == v \in {"Eigen", "LinEqRefs"}
ExcludeRFromRedundancyTest(v) == v \in {"DIIS", "Optimize"}
SingularityThresholdOf(v) ==
  IF v = "Optimize" THEN OptimizeSingularity
  ELSE IF v = "DIIS" THEN m_svdThreshold
  ELSE m_singularity_threshold

----------------------------------------------------------------------------
(* Helpers on sequences *)

Iota(n) == [i \in 1 .. n |-> i - 1]
RemoveAt(s, i) == [j \in 1 .. Len(s) - 1 |-> IF j < i THEN s[j] ELSE s[j + 1]]
Resize(s, n, fill) == [i \in 1 .. n |-> IF i <= Len(s) THEN s[i] ELSE fill]
SeqMax(s) == CHOOSE x \in {s[i] : i \in 1 .. Len(s)} : \A i \in 1 .. Len(s) : s[i] <= x
Range(s) == {s[i] : i \in 1 .. Len(s)}

----------------------------------------------------------------------------
(* The Q space (class Q): an ordered list of entries, each with a key that  *)
(* is handed out once and never reused.                                     *)

QSize(q) == Len(q)
QKeys(q) == [i \in 1 .. Len(q) |-> q[i].key]
\* add(r_new, action_new, r_prev, action_prev, ...): the difference vector of a root
QAddDifference(q, idx, root) == Append(q, [key |-> idx, kind |-> "d", root |-> root])
\* add(r_new, action_new, rhs, resres): the converged solution of a root
QAddSolution(q, idx, root) == Append(q, [key |-> idx, kind |-> "s", root |-> root])
\* remove(seq): drops the entry at position seq (counted from 0)
QRemove(q, seq) == RemoveAt(q, seq + 1)

----------------------------------------------------------------------------
(* propose_singularity_deletion *)

\* The right-singular vectors a pass may see: a unit vector, so at least one of its
\* n coefficients is above 1e-3; at most two are.
SingularVectors(n) ==
  {[i \in 0 .. n - 1 |-> IF i = a THEN x ELSE IF i = b THEN y ELSE 0] :
      a \in 0 .. n - 1, b \in 0 .. n - 1, x \in 1 .. MaxCoef, y \in 0 .. MaxCoef}

\* FirstSignificant giving up after the first candidate
FirstSignificant_OnlyFirst(candidates, v, i) ==
  IF i > Len(candidates) THEN -1
  ELSE IF v[candidates[i]] > CoefThreshold THEN candidates[i]
  ELSE -1

RECURSIVE FirstSignificant(_, _, _)
\* the loop over the candidates: the first one whose coefficient is above 1e-3
FirstSignificant(candidates, v, i) ==
  IF i > Len(candidates) THEN -1
  ELSE IF v[candidates[i]] > CoefThreshold THEN candidates[i]
  ELSE FirstSignificant(candidates, v, i + 1)

\* sv: the smallest singular value of the tested n x n block, v: its right-singular
\* vector.  Returns the index to delete, or -1.
propose_singularity_deletion(n, candidates, sv, v, threshold) ==
  IF sv > threshold THEN -1 ELSE FirstSignificant(candidates, v, 1)

\* buildSubspace: the Q positions (from 0) that no converged root's record points at,
\* as indices of the subspace (offset oQ), in ascending order
\* CandidatesFrom without the test of m_q_solutions: every Q position is a candidate
CandidatesFrom_All(q, qsol, oQ, a) == [i \in 1 .. Len(q) - a |-> oQ + a + i - 1]

RECURSIVE CandidatesFrom(_, _, _, _)
CandidatesFrom(q, qsol, oQ, a) ==
  IF a >= Len(q) THEN <<>>
  ELSE IF \E root \in DOMAIN qsol : qsol[root] = q[a + 1].key
       THEN CandidatesFrom(q, qsol, oQ, a + 1)
       ELSE <<oQ + a>> \o CandidatesFrom(q, qsol, oQ, a + 1)

Candidates(q, qsol, oQ) == CandidatesFrom(q, qsol, oQ, 0)

ThresholdInForce(nQ, v) == IF nQ > m_maxQ THEN ForcedThreshold ELSE SingularityThresholdOf(v)

\* the largest coefficient of v over the candidates
LargestCoefficient(candidates, v) ==
  IF candidates = <<>> THEN 0 ELSE SeqMax([i \in 1 .. Len(candidates) |-> v[candidates[i]]])

\* What a pass of buildSubspace found.  tested: it ended the conditioning.  evicted:
\* it removed a Q entry, whose coefficient in the most singular vector was coef, the
\* largest coefficient of a candidate being best.
NoCond == [tested |-> FALSE, stable |-> TRUE, ncand |-> 0, hit |-> FALSE,
           evicted |-> FALSE, coef |-> 0, best |-> 0]

----------------------------------------------------------------------------
(* Optimize::solveReducedProblem: the test of the Wolfe conditions and the line     *)
(* search.  Objective values and projected gradients are integers, in units of      *)
(* m_thresh.  The minimum of the cubic interpolant is not computed: whether         *)
(* interpolatedMinimum finds one, and where its alpha lies, are inputs:             *)
(*   "negative"  alpha < 0                                                           *)
(*   "below"     0 <= alpha <= 1 - m_linesearch_tolerance                            *)
(*   "nearBelow" 1 - m_linesearch_tolerance < alpha < 1                              *)
(*   "nearAbove" 1 <= alpha < 1 + m_linesearch_tolerance                             *)
(*   "above"     1 + m_linesearch_tolerance <= alpha <= m_linesearch_grow_factor     *)
(*   "beyond"    alpha > m_linesearch_grow_factor                                    *)

AlphaLevels == {"negative", "below", "nearBelow", "nearAbove", "above", "beyond"}
AlphaPositive(alpha) == alpha # "negative"
AlphaBelowOne(alpha) == alpha \in {"negative", "below", "nearBelow"}
AlphaNearOne(alpha) == alpha \in {"nearBelow", "nearAbove"}
AlphaBeyondGrow(alpha) == alpha = "beyond"

Abs(x) == IF x < 0 THEN 0 - x ELSE x

\* bool Wolfe_1 = f1 <= f0 + m_Wolfe_1 * g0;
Wolfe_1(f0, f1, g0) == m_Wolfe_1_den * f1 <= m_Wolfe_1_den * f0 + m_Wolfe_1_num * g0

\* bool Wolfe_2 = m_strong_Wolfe ? g1 >= m_Wolfe_2 * g0 : abs(g1) <= m_Wolfe_2 * abs(g0);
Wolfe_2(strong, g0, g1) ==
  IF strong THEN m_Wolfe_2_den * g1 >= m_Wolfe_2_num * g0
  ELSE m_Wolfe_2_den * Abs(g1) <= m_Wolfe_2_num * Abs(g0)

\* not bracketed, interpolant goes the wrong way
WrongWay(g0, g1, alpha) ==
  \/ g0 > 0 /\ g1 > 0 /\ AlphaPositive(alpha)
  \/ g0 < 0 /\ g1 < 0 /\ AlphaBelowOne(alpha)

\* LineSearchOutcome accepting whenever the interpolant was found
LineSearchOutcome_AcceptInterpolated(n, f0, f1, g0, g1, strong, found_min, alpha) ==
  IF n = 0 THEN "first"
  ELSE IF g1 < m_thresh THEN "gradient"
  ELSE IF Wolfe_1(f0, f1, g0) /\ Wolfe_2(strong, g0, g1) THEN "wolfe"
  ELSE IF found_min THEN "shortcut"
  ELSE "grow"

\* which way solveReducedProblem leaves, n being the size of the Q space:
\*   "first", "gradient", "wolfe", "shortcut": through the label accept;
\*   "grow", "interpolate": a new line-search step is needed
LineSearchOutcome(n, f0, f1, g0, g1, strong, found_min, alpha) ==
  IF n = 0 THEN "first"
  ELSE IF g1 < m_thresh THEN "gradient"
  ELSE IF Wolfe_1(f0, f1, g0) /\ Wolfe_2(strong, g0, g1) THEN "wolfe"
  ELSE LET interpolated_ok == found_min /\ ~WrongWay(g0, g1, alpha)
       IN IF ~interpolated_ok \/ AlphaBeyondGrow(alpha) THEN "grow"
          ELSE IF AlphaNearOne(alpha) THEN "shortcut"
          ELSE "interpolate"

Accepted(outcome) == outcome \in {"first", "gradient", "wolfe", "shortcut"}

\* m_best_f after solveReducedProblem: the current value after accept, and after a
\* line-search step when f1 <= f0
BestAfter(outcome, f0, f1) ==
  IF Accepted(outcome) THEN f1
  ELSE IF f1 <= f0 THEN f1 ELSE f0

NoWolfeTest ==
  [n |-> 0, f0 |-> NoValue, f1 |-> NoValue, g0 |-> 0, g1 |-> 0, found_min |-> FALSE,
   alpha |-> "beyond", outcome |-> "none"]

NoWolfeInput == [g0 |-> 0, g1 |-> 0, found_min |-> FALSE, alpha |-> "beyond"]

\* the inputs of one solveReducedProblem of Optimize: the projected gradients g0 and
\* g1 and, when the step is not accepted at once, whether interpolatedMinimum finds a
\* minimum and where (found_min is FALSE and alpha is "beyond" when it is not called
\* or finds none)
WolfeInputs(v, n, f0, f1, strong) ==
  IF v = "Optimize" /\ n > 0
  THEN {[g0 |-> g0, g1 |-> g1, found_min |-> FALSE, alpha |-> "beyond"] :
          g0 \in GLevels, g1 \in GLevels}
       \cup {r \in [g0 : GLevels, g1 : GLevels, found_min : {TRUE}, alpha : AlphaLevels] :
                ~(r.g1 < m_thresh \/ (Wolfe_1(f0, f1, r.g0) /\ Wolfe_2(strong, r.g0, r.g1)))}
  ELSE {NoWolfeInput}

\* what solveReducedProblem of Optimize sees and decides, for the inputs inp
WolfeTest(n, best_f, f1, strong, inp) ==
  [n |-> n, f0 |-> best_f, f1 |-> f1, g0 |-> inp.g0, g1 |-> inp.g1,
   found_min |-> inp.found_min, alpha |-> inp.alpha,
   outcome |-> LineSearchOutcome(n, best_f, f1, inp.g0, inp.g1, strong,
                                 inp.found_min, inp.alpha)]

----------------------------------------------------------------------------
NoSnapshot ==
  [op |-> "none", np |-> 0, saved |-> <<>>, q0 |-> <<>>, errs0 |-> <<>>, last0 |-> "none",
   values0 |-> 0]

SolverInit ==
  /\ variant \in Variants
  /\ m_roots \in (IF Linear(variant) THEN 0 .. MaxBuf ELSE {1})
  /\ m_working_set = <<>>
  /\ m_errors = <<>>
  /\ m_qspace = <<>>
  /\ m_index = 0
  /\ m_q_solutions = [r \in Roots |-> NoKey]
  /\ m_last_d = <<>>
  /\ m_last_hd = <<>>
  /\ m_current_r = 0
  /\ m_s_rr = 0
  /\ m_interpolation = [rows |-> 0, cols |-> 0]
  /\ m_pspace = 0
  /\ m_iterations = 0
  /\ m_nullify_solution_before_update = FALSE
  /\ m_linesearch_steplength = 0
  /\ m_values = <<>>
  /\ m_best_f = NoValue
  \* a public member: the constructor sets it, the caller may clear it before iterating
  /\ m_strong_Wolfe \in (IF variant = "Optimize" THEN BOOLEAN ELSE {TRUE})
  /\ wolfe_test = NoWolfeTest
  /\ steps = <<>>
  /\ pc = "idle"
  /\ ctx = NoSnapshot
  /\ last = "none"
  /\ ret = 0
  /\ ever_ws = {}
  /\ cond = NoCond
  /\ interpolated = [nP |-> 0, q |-> <<>>, nR |-> 0]

\* AddDifferences appending two entries per working-set root
AddDifferences_Twice(q, idx, ws, k) ==
  q \o [i \in 1 .. Len(ws) |-> [key |-> idx + i - 1, kind |-> "d", root |-> ws[i]]]
    \o [i \in 1 .. Len(ws) |-> [key |-> idx + Len(ws) + i - 1, kind |-> "d", root |-> ws[i]]]

\* the difference vectors appended at the start of addVector, one per working-set root
RECURSIVE AddDifferences(_, _, _, _)
AddDifferences(q, idx, ws, k) ==
  IF k > Len(ws) THEN q
  ELSE AddDifferences(QAddDifference(q, idx + k - 1, ws[k]), idx, ws, k + 1)

\* EarlyReturn left out: addVector goes on with an empty working set
EarlyReturn_Never(ws) == FALSE

\* if (m_working_set.size() == 0) return 0;
EarlyReturn(ws) == ws = <<>>

(* addVector up to the call of buildSubspace.  np is the number of vectors in the   *)
(* caller's parameters and action buffers; addValue (Optimize) passes one vector     *)
(* and stores the value first.                                                       *)
AddVectorEnter(np) ==
  /\ pc = "idle"
  /\ m_iterations < (IF variant = "Optimize" THEN MaxValueIter ELSE MaxIter)
  /\ variant = "Optimize" => np = 1
  /\ LET roots1 == IF m_roots < 1 THEN np ELSE m_roots
         ws1 == IF QSize(m_qspace) = 0 /\ m_working_set = <<>> THEN Iota(np)
                ELSE m_working_set
     IN /\ m_roots' = roots1
        /\ m_working_set' = ws1
        /\ \E value \in (IF variant = "Optimize" THEN FLevels ELSE {0}) :
             m_values' = IF variant = "Optimize" THEN Append(m_values, value) ELSE m_values
        /\ IF EarlyReturn(ws1)
           THEN \* return 0
                /\ ret' = 0
                /\ last' = "addVectorEarly"
                /\ UNCHANGED <<pc, ctx, m_iterations, m_current_r, m_qspace, m_index,
                               m_last_d, m_last_hd, m_s_rr, ever_ws, cond>>
           ELSE IF \/ np < Len(ws1)
                   \/ (m_last_d # <<>> /\ (Len(m_last_d) # Len(ws1) \/ Len(m_last_hd) # Len(ws1)))
           THEN \* an assertion fails: the program is aborted
                /\ pc' = "aborted"
                /\ last' = "addVectorAbort"
                /\ m_iterations' = IF np < Len(ws1) THEN m_iterations ELSE m_iterations + 1
                /\ m_current_r' = IF np < Len(ws1) THEN m_current_r ELSE Len(ws1)
                /\ UNCHANGED <<ctx, ret, m_qspace, m_index, m_last_d, m_last_hd, m_s_rr,
                               ever_ws, cond>>
           ELSE /\ m_iterations' = m_iterations + 1
                /\ m_current_r' = Len(ws1)
                /\ IF m_last_d # <<>>
                   THEN /\ m_qspace' = AddDifferences(m_qspace, m_index, ws1, 1)
                        /\ m_index' = m_index + Len(ws1)
                   ELSE UNCHANGED <<m_qspace, m_index>>
                /\ m_last_d' = <<>>
                /\ m_last_hd' = <<>>
                /\ m_s_rr' = Len(ws1)
                /\ ever_ws' = ever_ws \cup Range(ws1)
                /\ pc' = "build"
                /\ ctx' = [op |-> "addVector", np |-> np, saved |-> m_working_set,
                                q0 |-> m_qspace, errs0 |-> m_errors, last0 |-> last,
                                values0 |-> Len(m_values)]
                /\ cond' = NoCond
                /\ UNCHANGED <<ret, last>>
  /\ UNCHANGED <<variant, m_errors, m_q_solutions, m_interpolation, m_pspace,
                 m_nullify_solution_before_update, m_linesearch_steplength, interpolated,
                 m_best_f, m_strong_Wolfe, wolfe_test, steps>>
  /\ UNCHANGED <<condVars, dimVars, wrapVars, sortVars, facadeVars, ctorVars>>

(* One execution of the body of buildSubspace: assemble, test for singularity, and   *)
(* either evict a Q entry and call buildSubspace again, or return to the caller.     *)
BuildSubspacePass ==
  /\ pc = "build"
  /\ LET nP == m_pspace
         nQ == QSize(m_qspace)
         nR == m_s_rr
         nX == nP + nQ + nR
         oQ == nP
     IN IF nQ = 0
        THEN /\ pc' = "solve"
             /\ cond' = NoCond
             /\ UNCHANGED <<m_qspace, m_errors>>
        ELSE LET candidates == Candidates(m_qspace, m_q_solutions, oQ)
                 n == IF ExcludeRFromRedundancyTest(variant) THEN nX - nR ELSE nX
                 threshold == ThresholdInForce(nQ, variant)
             IN \E sv \in SvLevels, v \in SingularVectors(n) :
                  LET del == propose_singularity_deletion(n, candidates, sv, v, threshold)
                  IN IF del >= 0
                     THEN /\ m_qspace' = QRemove(m_qspace, del - oQ)
                          /\ m_errors' = [i \in 1 .. m_roots |-> ResetError]
                          /\ cond' = [NoCond EXCEPT
                                        !.evicted = TRUE,
                                        !.coef = v[del],
                                        !.best = LargestCoefficient(candidates, v)]
                          /\ pc' = "build"
                     ELSE /\ pc' = "solve"
                          /\ cond' = [tested |-> TRUE,
                                      stable |-> sv > threshold,
                                      ncand |-> Len(candidates),
                                      hit |-> \E i \in 1 .. Len(candidates) :
                                                 v[candidates[i]] > CoefThreshold,
                                      evicted |-> FALSE, coef |-> 0, best |-> 0]
                          /\ UNCHANGED <<m_qspace, m_errors>>
  /\ UNCHANGED <<variant, m_roots, m_working_set, m_index, m_q_solutions, m_last_d,
                 m_last_hd, m_current_r, m_s_rr, m_interpolation, m_pspace, m_iterations,
                 m_nullify_solution_before_update, m_linesearch_steplength, m_values,
                 m_best_f, m_strong_Wolfe, wolfe_test, steps,
                 ctx, last, ret, ever_ws, interpolated>>
  /\ UNCHANGED <<condVars, dimVars, wrapVars, sortVars, facadeVars, ctorVars>>

----------------------------------------------------------------------------
(* solveReducedProblem: the shape of the interpolation matrix each variant leaves. *)
(* nR is the size of the R-R block (m_s_rr).  linesearch: Optimize found that the   *)
(* Wolfe conditions fail and a new step length is needed.                           *)
Min(a, b) == IF a < b THEN a ELSE b

solveReducedProblem(v, nP, nQ, nR, roots) ==
  LET nX == nP + nQ + nR
  IN CASE v = "Eigen" -> [rows |-> nX, cols |-> Min(roots, nX)]
       [] v \in {"LinEq", "LinEqRefs"} -> [rows |-> nX, cols |-> roots]
       [] v = "DIIS" -> [rows |-> nX, cols |-> 1]
       [] v = "Optimize" -> [rows |-> nQ + 1, cols |-> 1]

\* doInterpolation: the number of Q vectors it combines, from the interpolation matrix
InterpolationNQ(interp, nP, nR) == interp.rows - nP - nR

\* the assertions at the head of doInterpolation
doInterpolationAsserts(interp, nP, nR, q, ws, nbuf) ==
  /\ InterpolationNQ(interp, nP, nR) >= 0
  /\ InterpolationNQ(interp, nP, nR) <= QSize(q)
  /\ Len(ws) <= nbuf

\* Converged with <= in place of <: a root whose error equals the threshold retires
Converged_AtThreshold(linear, err) == linear /\ err <= m_thresh

\* Converged without the test of m_linear: a root of DIIS or Optimize retires too
Converged_AnyVariant(linear, err) == err < m_thresh

\* m_linear and m_errors[root] < m_thresh: the root is converged
Converged(linear, err) == linear /\ err < m_thresh

\* ConvergedJustNow without the test of m_q_solutions.count(root)
ConvergedJustNow_EveryTime(linear, err, qsol, root) == linear /\ err < m_thresh

\* ... and m_q_solutions.count(root) == 0: converged just now
ConvergedJustNow(linear, err, qsol, root) == linear /\ err < m_thresh /\ qsol[root] = NoKey

\* doInterpolation: the vectors it combines: all of P, the first nQ of Q, the current R
InterpolationSpace(interp, nP, nR, q) ==
  [nP |-> nP, q |-> SubSeq(QKeys(q), 1, InterpolationNQ(interp, nP, nR)), nR |-> nR]

RECURSIVE ConvergedLoop(_, _, _, _)
(* The loop of addVector over the working set after the errors are known:           *)
(* a root of a linear solver whose error is below the threshold gets its solution   *)
(* into Q the first time, and leaves the working set; any other root is stashed     *)
(* for the next iteration.  k counts from 0 as in the code.                         *)
ConvergedLoop(st, k, errs, linear) ==
  IF k >= Len(st.ws) THEN st
  ELSE LET root == st.ws[k + 1]
           converged == Converged(linear, errs[root + 1])
           st1 == IF ConvergedJustNow(linear, errs[root + 1], st.qsol, root)
                  THEN LET q1 == QAddSolution(st.q, st.idx, root)
                       IN [st EXCEPT !.q = q1, !.idx = @ + 1,
                                     !.qsol[root] = QKeys(q1)[Len(q1)]]
                  ELSE st
       IN IF converged
          THEN ConvergedLoop([st1 EXCEPT !.ws = RemoveAt(@, k + 1)], k, errs, linear)
          ELSE ConvergedLoop([st1 EXCEPT !.last_d = Append(@, [src |-> "p", root |-> root]),
                                         !.last_hd = Append(@, [src |-> "p", root |-> root])],
                             k + 1, errs, linear)

\* where doInterpolation can meet a solution of zero norm in addVector
\* (0: nowhere; 1, 2, 3: in its first, second, third call)
ZeroNormSites(v) ==
  IF ResidualEigen(v) THEN (IF Linear(v) THEN 0 .. 3 ELSE {0, 2, 3}) ELSE {0}

\* whether a doInterpolation outside addVector meets a solution of zero norm: only
\* with the eigen-residual convention and a root to interpolate; always when there
\* is no vector to combine
ZeroNorm(v, ws, nvectors) ==
  IF ResidualEigen(v) /\ ws # <<>>
  THEN (IF nvectors = 0 THEN {TRUE} ELSE BOOLEAN)
  ELSE {FALSE}

\* BufferTooSmall never true: addVector goes on with a buffer smaller than the roots
BufferTooSmall_Never(roots, np) == FALSE

\* if (m_roots > parameters.size()) throw std::runtime_error(...)
BufferTooSmall(roots, np) == roots > np

\* AddVectorSteps with the interpolation in action-only mode run last
AddVectorSteps_ActionLast(linear) ==
  (IF linear THEN <<"full">> ELSE <<>>) \o <<"errors", "full", "promote", "action">>

\* what addVector runs once the buffer is known to be large enough, in this order:
\*   "full"    doInterpolation(..., false), the first one by a linear solver only
\*   "errors"  the errors are set from the norms of the action vectors
\*   "action"  doInterpolation(..., true)
\*   "promote" the loop over the working set: promotion, retirement, stashing
AddVectorSteps(linear) ==
  (IF linear THEN <<"full">> ELSE <<>>) \o <<"errors", "action", "promote", "full">>

\* the steps begun when the doInterpolation at the site throws (0: none does)
StepsUntil(all_steps, site) ==
  LET first(name) == CHOOSE i \in 1 .. Len(all_steps) :
                       /\ all_steps[i] = name
                       /\ \A j \in 1 .. i - 1 : all_steps[j] # name
  IN CASE site = 1 -> SubSeq(all_steps, 1, first("full"))
       [] site = 2 -> SubSeq(all_steps, 1, first("action"))
       [] OTHER -> all_steps

(* addVector from solveReducedProblem to its return *)
AddVectorFinish ==
  /\ pc = "solve"
  /\ ctx.op = "addVector"
  /\ pc' = "idle"
  /\ \E inp \in WolfeInputs(variant, QSize(m_qspace), m_best_f,
                             IF variant = "Optimize" THEN m_values[Len(m_values)] ELSE NoValue,
                             m_strong_Wolfe) :
       LET interp == solveReducedProblem(variant, m_pspace, QSize(m_qspace), m_s_rr, m_roots)
           test == WolfeTest(QSize(m_qspace), m_best_f,
                             IF variant = "Optimize" THEN m_values[Len(m_values)] ELSE NoValue,
                             m_strong_Wolfe, inp)
           linesearch == variant = "Optimize" /\ ~Accepted(test.outcome)
           nullify == IF variant = "Optimize" THEN ~linesearch
                      ELSE m_nullify_solution_before_update
           all == Iota(m_roots)
       IN /\ m_interpolation' = interp
          /\ m_nullify_solution_before_update' = nullify
          /\ m_linesearch_steplength' = IF variant = "Optimize"
                                        THEN (IF linesearch THEN 1 ELSE 0)
                                        ELSE m_linesearch_steplength
          /\ wolfe_test' = IF variant = "Optimize" THEN test ELSE wolfe_test
          /\ m_best_f' = IF variant = "Optimize"
                         THEN BestAfter(test.outcome, test.f0, test.f1)
                         ELSE m_best_f
          /\ IF BufferTooSmall(m_roots, ctx.np)
             THEN \* "Cannot yet work with buffer smaller than number of roots"
                  /\ last' = "addVectorThrow"
                  /\ steps' = <<>>
                  /\ UNCHANGED <<m_errors, m_working_set, m_qspace, m_index, m_q_solutions,
                                 m_last_d, m_last_hd, m_current_r, ret, ever_ws,
                                 interpolated>>
             ELSE \E errs \in [1 .. m_roots -> ErrVals], site \in ZeroNormSites(variant) :
                    LET st0 == [ws |-> all, q |-> m_qspace, idx |-> m_index,
                                qsol |-> m_q_solutions, last_d |-> <<>>, last_hd |-> <<>>]
                        st == ConvergedLoop(st0, 0, errs, Linear(variant))
                        current == [k \in 1 .. Len(st.ws) |-> [src |-> "r", root |-> st.ws[k]]]
                        all_steps == AddVectorSteps(Linear(variant))
                    IN /\ ever_ws' = ever_ws \cup Range(all)
                       /\ interpolated' = InterpolationSpace(interp, m_pspace, m_current_r, st.q)
                       /\ CASE site = 1 /\ m_roots > 0 ->
                                 /\ last' = "addVectorThrow"
                                 /\ steps' = StepsUntil(all_steps, 1)
                                 /\ m_errors' = Resize(m_errors, m_roots, 0)
                                 /\ m_working_set' = all
                                 /\ UNCHANGED <<m_qspace, m_index, m_q_solutions, m_last_d,
                                                m_last_hd, m_current_r, ret>>
                            [] site = 2 /\ m_roots > 0 ->
                                 /\ last' = "addVectorThrow"
                                 /\ steps' = StepsUntil(all_steps, 2)
                                 /\ m_errors' = errs
                                 /\ m_working_set' = all
                                 /\ UNCHANGED <<m_qspace, m_index, m_q_solutions, m_last_d,
                                                m_last_hd, m_current_r, ret>>
                            [] site = 3 /\ st.ws # <<>> ->
                                 /\ last' = "addVectorThrow"
                                 /\ steps' = StepsUntil(all_steps, 3)
                                 /\ m_errors' = errs
                                 /\ m_working_set' = st.ws
                                 /\ m_qspace' = st.q
                                 /\ m_index' = st.idx
                                 /\ m_q_solutions' = st.qsol
                                 /\ m_last_d' = st.last_d
                                 /\ m_last_hd' = st.last_hd
                                 /\ UNCHANGED <<m_current_r, ret>>
                            [] OTHER ->
                                 /\ last' = "addVector"
                                 /\ steps' = StepsUntil(all_steps, 0)
                                 /\ m_errors' = errs
                                 /\ m_working_set' = st.ws
                                 /\ m_qspace' = st.q
                                 /\ m_index' = st.idx
                                 /\ m_q_solutions' = st.qsol
                                 /\ m_last_d' = IF nullify THEN current ELSE st.last_d
                                 /\ m_last_hd' = IF nullify THEN current ELSE st.last_hd
                                 /\ m_current_r' = 0
                                 /\ ret' = Len(st.ws)
  /\ cond' = NoCond
  /\ UNCHANGED <<variant, m_roots, m_s_rr, m_pspace, m_iterations, m_values, m_strong_Wolfe,
                 ctx>>
  /\ UNCHANGED <<condVars, dimVars, wrapVars, sortVars, facadeVars, ctorVars>>

----------------------------------------------------------------------------
(* solution(roots, parameters, residual) *)

RECURSIVE SetToSeq(_)
SetToSeq(S) ==
  IF S = {} THEN <<>>
  ELSE LET m == CHOOSE x \in S : \A y \in S : x <= y
       IN <<m>> \o SetToSeq(S \ {m})

\* the lists of roots a caller asks for: any set of roots, in ascending order
RootLists(roots) == {SetToSeq(S) : S \in SUBSET (0 .. roots - 1)}

SolutionEnter(roots) ==
  /\ pc = "idle"
  /\ m_iterations > 0
  /\ ctx' = [op |-> "solution", np |-> Len(roots), saved |-> m_working_set,
             q0 |-> m_qspace, errs0 |-> m_errors, last0 |-> last,
             values0 |-> Len(m_values)]
  /\ m_working_set' = roots
  /\ m_s_rr' = 0
  /\ pc' = "build"
  /\ cond' = NoCond
  /\ UNCHANGED <<variant, m_roots, m_errors, m_qspace, m_index, m_q_solutions, m_last_d,
                 m_last_hd, m_current_r, m_interpolation, m_pspace, m_iterations,
                 m_nullify_solution_before_update, m_linesearch_steplength, m_values,
                 m_best_f, m_strong_Wolfe, wolfe_test, steps,
                 last, ret, ever_ws, interpolated>>
  /\ UNCHANGED <<condVars, dimVars, wrapVars, sortVars, facadeVars, ctorVars>>

\* whether solveReducedProblem of Optimize copies m_current_r.front() into m_best_r
ReadsCurrent(outcome, f0, f1) == Accepted(outcome) \/ f1 <= f0

\* what the copy of m_current_r.front() can do: with no current vector it reads past
\* the end of an empty container, which may or may not end the program
FrontOutcomes(v, outcome, f0, f1, ncurrent) ==
  IF v = "Optimize" /\ ReadsCurrent(outcome, f0, f1) /\ ncurrent = 0
  THEN {"crash", "garbage"}
  ELSE {"ok"}

SolutionFinish ==
  /\ pc = "solve"
  /\ ctx.op = "solution"
  /\ \E inp \in WolfeInputs(variant, QSize(m_qspace), m_best_f,
                             IF variant = "Optimize" THEN m_values[Len(m_values)] ELSE NoValue,
                             m_strong_Wolfe),
        zeronorm \in ZeroNorm(variant, m_working_set, m_pspace + QSize(m_qspace) + m_current_r) :
       LET interp == solveReducedProblem(variant, m_pspace, QSize(m_qspace), m_s_rr, m_roots)
           test == WolfeTest(QSize(m_qspace), m_best_f,
                             IF variant = "Optimize" THEN m_values[Len(m_values)] ELSE NoValue,
                             m_strong_Wolfe, inp)
           linesearch == variant = "Optimize" /\ ~Accepted(test.outcome)
       IN \E front \in FrontOutcomes(variant, test.outcome, test.f0, test.f1, m_current_r) :
          IF variant = "DIIS" /\ m_pspace + QSize(m_qspace) + m_s_rr = 0
          THEN \* DIIS::solveReducedProblem on an empty subspace: nDim = rows() - 1 wraps
               \* around and the allocation of the right-hand side throws
               /\ pc' = "idle"
               /\ last' = "solutionThrow"
               /\ m_interpolation' = [rows |-> 0, cols |-> 1]
               /\ UNCHANGED <<m_working_set, m_nullify_solution_before_update,
                              m_linesearch_steplength, interpolated, wolfe_test, m_best_f>>
          ELSE /\ m_interpolation' = interp
               /\ m_nullify_solution_before_update' =
                    IF variant = "Optimize" THEN ~linesearch ELSE m_nullify_solution_before_update
               /\ m_linesearch_steplength' =
                    IF variant = "Optimize" THEN (IF linesearch THEN 1 ELSE 0)
                    ELSE m_linesearch_steplength
               /\ wolfe_test' = IF variant = "Optimize" THEN test ELSE wolfe_test
               /\ IF front = "crash"
                  THEN /\ pc' = "aborted"
                       /\ last' = "solutionAbort"
                       /\ UNCHANGED <<m_working_set, interpolated, m_best_f>>
                  ELSE /\ m_best_f' = IF variant = "Optimize"
                                      THEN BestAfter(test.outcome, test.f0, test.f1)
                                      ELSE m_best_f
                       /\ IF ~doInterpolationAsserts(interp, m_pspace, m_current_r, m_qspace,
                                                     m_working_set, ctx.np)
                          THEN /\ pc' = "aborted"
                               /\ last' = "solutionAbort"
                               /\ UNCHANGED <<m_working_set, interpolated>>
                          ELSE /\ interpolated' =
                                    InterpolationSpace(interp, m_pspace, m_current_r, m_qspace)
                               /\ IF zeronorm
                                  THEN \* "new solution has zero norm": the working set is
                                       \* not restored
                                       /\ pc' = "idle"
                                       /\ last' = "solutionThrow"
                                       /\ UNCHANGED m_working_set
                                  ELSE /\ pc' = "idle"
                                       /\ last' = "solution"
                                       /\ m_working_set' = ctx.saved
  /\ UNCHANGED <<variant, m_roots, m_errors, m_qspace, m_index, m_q_solutions, m_last_d,
                 m_last_hd, m_current_r, m_s_rr, m_pspace, m_iterations, m_values,
                 m_strong_Wolfe, steps, ctx, ret, ever_ws>>
  /\ cond' = NoCond
  /\ UNCHANGED <<condVars, dimVars, wrapVars, sortVars, facadeVars, ctorVars>>

----------------------------------------------------------------------------
(* addP(Pvectors, PP, parameters, action, parametersP): for linear methods.          *)
(* k new P vectors, np vectors in the caller's buffers (action.front() is read).     *)

\* P::add appends the new vectors
PAdd(nP, k) == nP + k

AddPEnter(k, np) ==
  /\ pc = "idle"
  /\ Linear(variant)
  /\ k >= 1
  /\ np >= 1
  /\ m_pspace + k <= MaxP
  /\ m_pspace' = PAdd(m_pspace, k)
  /\ ctx' = [op |-> "addP", np |-> np, saved |-> m_working_set,
             q0 |-> m_qspace, errs0 |-> m_errors, last0 |-> last,
             values0 |-> Len(m_values)]
  /\ pc' = "build"
  /\ cond' = NoCond
  /\ UNCHANGED <<variant, m_roots, m_working_set, m_errors, m_qspace, m_index, m_q_solutions,
                 m_last_d, m_last_hd, m_current_r, m_s_rr, m_interpolation, m_iterations,
                 m_nullify_solution_before_update, m_linesearch_steplength, m_values,
                 m_best_f, m_strong_Wolfe, wolfe_test, steps,
                 last, ret, ever_ws, interpolated>>
  /\ UNCHANGED <<condVars, dimVars, wrapVars, sortVars, facadeVars, ctorVars>>

AddPFinish ==
  /\ pc = "solve"
  /\ ctx.op = "addP"
  /\ LET interp == solveReducedProblem(variant, m_pspace, QSize(m_qspace), m_s_rr, m_roots)
     IN /\ m_interpolation' = interp
        /\ \E zeronorm \in ZeroNorm(variant, m_working_set,
                                     m_pspace + QSize(m_qspace) + m_current_r) :
             IF ~doInterpolationAsserts(interp, m_pspace, m_current_r, m_qspace,
                                        m_working_set, ctx.np)
             THEN /\ pc' = "aborted"
                  /\ last' = "addPAbort"
                  /\ UNCHANGED <<ret, interpolated>>
             ELSE /\ interpolated' =
                       InterpolationSpace(interp, m_pspace, m_current_r, m_qspace)
                  /\ IF zeronorm
                     THEN /\ pc' = "idle"
                          /\ last' = "addPThrow"
                          /\ UNCHANGED ret
                     ELSE /\ pc' = "idle"
                          /\ last' = "addP"
                          /\ ret' = ctx.np
  /\ UNCHANGED <<variant, m_roots, m_working_set, m_errors, m_qspace, m_index, m_q_solutions,
                 m_last_d, m_last_hd, m_current_r, m_s_rr, m_pspace, m_iterations,
                 m_nullify_solution_before_update, m_linesearch_steplength, m_values,
                 m_best_f, m_strong_Wolfe, wolfe_test, steps,
                 ctx, ever_ws>>
  /\ cond' = NoCond
  /\ UNCHANGED <<condVars, dimVars, wrapVars, sortVars, facadeVars, ctorVars>>

----------------------------------------------------------------------------
(* endIteration.  Optimize first completes its step: after a line-search step the   *)
(* provisional last Q entry and the rejected value are dropped.  It is called once   *)
(* after each addValue.                                                              *)
\* endIterationResult reporting convergence when there is no error yet
endIterationResult_EmptyConverged(errs) ==
  IF errs = <<>> THEN 1 ELSE (IF SeqMax(errs) < m_thresh THEN 1 ELSE 0)

\* return m_errors.empty() ? 0 : *std::max_element(...) < m_thresh;  1 stands for true
endIterationResult(errs) ==
  IF errs = <<>> THEN 0 ELSE (IF SeqMax(errs) < m_thresh THEN 1 ELSE 0)

\* pop_back leaving the rejected value in place
pop_back_Keep(values) == values

\* m_values.pop_back()
pop_back(values) == SubSeq(values, 1, Len(values) - 1)

EndIteration ==
  /\ pc = "idle"
  /\ last # "endIteration"
  /\ variant = "Optimize" => last = "addVector"
  /\ IF variant = "Optimize" /\ m_q_solutions[0] = NoKey /\ m_linesearch_steplength # 0
     THEN /\ QSize(m_qspace) > 0
          /\ m_values # <<>>
          /\ m_values' = pop_back(m_values)
          /\ m_qspace' = QRemove(m_qspace, QSize(m_qspace) - 1)
     ELSE UNCHANGED <<m_values, m_qspace>>
  /\ ret' = endIterationResult(m_errors)
  /\ last' = "endIteration"
  /\ UNCHANGED <<variant, m_roots, m_working_set, m_errors, m_index, m_q_solutions, m_last_d,
                 m_last_hd, m_current_r, m_s_rr, m_interpolation, m_pspace, m_iterations,
                 m_nullify_solution_before_update, m_linesearch_steplength, pc, ctx,
                 m_best_f, m_strong_Wolfe, wolfe_test, steps,
                 ever_ws, cond, interpolated>>
  /\ UNCHANGED <<condVars, dimVars, wrapVars, sortVars, facadeVars, ctorVars>>

----------------------------------------------------------------------------
(* xspace::check_conditioning(xs, rs, qs, ps, svd_threshold, norm_threshold).        *)
(* The singular system is a function of the subspace: it is drawn when the subspace  *)
(* is built and stays the same until the subspace is built again.  A norm is the     *)
(* weight of a candidate in the most singular vector, as a level: below, equal to    *)
(* or above norm_threshold.                                                          *)

NormLevels == 0 .. MaxNorm

\* svd_system: empty when no singular value is below svd_threshold; else the weights
\* of the candidates in the vector of the smallest singular value
SvdSystems(candidates) ==
  {[empty |-> e, norm |-> n] : e \in BOOLEAN, n \in [candidates -> NormLevels]}

\* detail::generate_candidates: the vectors of the Q space that may be modified
GenerateCandidates(nq) == SUBSET (0 .. nq - 1)

\* std::max_element over the norms of the pairs
MaxNormOf(svd, candidates) ==
  CHOOSE x \in {svd.norm[c] : c \in candidates} : \A c \in candidates : svd.norm[c] <= x

\* QSpace::merge of the pair (c, c): the vector c leaves the Q space
QMerge(nq) == nq - 1

CondInit ==
  /\ c_pc = "while"
  /\ c_stable = FALSE
  /\ c_nq \in 0 .. MaxCondQ
  /\ c_candidates \in GenerateCandidates(c_nq)
  /\ c_svd \in SvdSystems(c_candidates)

CondIdle ==
  /\ c_pc = "done"
  /\ c_stable = TRUE
  /\ c_nq = 0
  /\ c_candidates = {}
  /\ c_svd = [empty |-> TRUE, norm |-> <<>>]

\* while (!stable && !empty_candidates())
CheckConditioningWhile ==
  /\ c_pc = "while"
  /\ c_pc' = IF ~c_stable /\ c_candidates # {} THEN "body" ELSE "done"
  /\ UNCHANGED <<c_stable, c_nq, c_candidates, c_svd>>
  /\ UNCHANGED <<solverVars, dimVars, wrapVars, sortVars, facadeVars, ctorVars>>

\* the body of the loop
CheckConditioningBody ==
  /\ c_pc = "body"
  /\ c_pc' = "while"
  /\ IF c_svd.empty
     THEN /\ c_stable' = TRUE
          /\ UNCHANGED <<c_nq, c_candidates, c_svd>>
     ELSE LET it_max == MaxNormOf(c_svd, c_candidates)
          IN /\ c_stable' = (it_max < norm_threshold)
             /\ IF it_max > norm_threshold
                THEN \* qs.merge(pairs.at(i_max)); xs.build_subspace; generate_candidates
                     /\ c_nq' = QMerge(c_nq)
                     /\ c_candidates' \in GenerateCandidates(c_nq')
                     /\ c_svd' \in SvdSystems(c_candidates')
                ELSE UNCHANGED <<c_nq, c_candidates, c_svd>>
  /\ UNCHANGED <<solverVars, dimVars, wrapVars, sortVars, facadeVars, ctorVars>>

----------------------------------------------------------------------------
(* Subspace dimensions *)

\* Dimensions with the C block left out of nX
Dimensions_WithoutC(np, nq, nr, nc) ==
  [nP |-> np, nQ |-> nq, nR |-> nr, nC |-> nc,
   nX |-> np + nq + nr,
   oP |-> 0, oQ |-> np, oR |-> np + nq, oC |-> np + nq + nr]

\* xspace::Dimensions(np, nq, nr, nc): the members after the constructor and the
\* default member initialisers have run, in the order of declaration
Dimensions(np, nq, nr, nc) ==
  [nP |-> np, nQ |-> nq, nR |-> nr, nC |-> nc,
   nX |-> np + nq + nr + nc,
   oP |-> 0, oQ |-> np, oR |-> np + nq, oC |-> np + nq + nr]

\* the Dimensions of the XSpace of P, Q and D spaces: Dimensions(np, nq, nd)
DimensionsPQD(np, nq, nd) ==
  [nP |-> np, nQ |-> nq, nD |-> nd,
   nX |-> np + nq + nd,
   oP |-> 0, oQ |-> np, oD |-> np + nq]

NoErase == [i |-> -1, nP |-> 0, nQ |-> 0, nD |-> 0, data |-> 0]

DimInit ==
  /\ dims = Dimensions(0, 0, 0, 0)
  /\ xs_pspace = 0
  /\ xs_qspace = 0
  /\ xs_dspace = 0
  /\ xs_data = 0
  /\ m_dim = DimensionsPQD(0, 0, 0)
  /\ xs_pc = "ready"
  /\ xs_last = NoErase

\* a Dimensions value is constructed
ConstructDimensions(np, nq, nr, nc) ==
  /\ dims' = Dimensions(np, nq, nr, nc)
  /\ UNCHANGED <<xs_pspace, xs_qspace, xs_dspace, xs_data, m_dim, xs_pc>>
  /\ xs_last' = NoErase
  /\ UNCHANGED <<solverVars, condVars, wrapVars, sortVars, facadeVars, ctorVars>>

\* XSpace::update_dimensions
update_dimensions(np, nq, nd) == DimensionsPQD(np, nq, nd)

\* XSpace::remove_data(i): row and column i leave H and S
remove_data(n, i) == IF i < n THEN n - 1 ELSE n

\* XSpace::update_qspace with n new parameters: QSpace::update appends them and
\* extends the data by their rows and columns
update_qspace(n) ==
  /\ xs_pc = "ready"
  /\ xs_qspace + n <= MaxDim
  /\ xs_qspace' = xs_qspace + n
  /\ xs_data' = xs_data + n
  /\ m_dim' = update_dimensions(xs_pspace, xs_qspace', xs_dspace)
  /\ UNCHANGED <<dims, xs_pspace, xs_dspace, xs_pc>>
  /\ xs_last' = NoErase
  /\ UNCHANGED <<solverVars, condVars, wrapVars, sortVars, facadeVars, ctorVars>>

\* XSpace::update_dspace with n parameters: the old D space is cleared
update_dspace(n) ==
  /\ xs_pc = "ready"
  /\ xs_dspace' = n
  /\ m_dim' = update_dimensions(xs_pspace, xs_qspace, xs_dspace')
  /\ xs_data' = m_dim'.nX
  /\ UNCHANGED <<dims, xs_pspace, xs_qspace, xs_pc>>
  /\ xs_last' = NoErase
  /\ UNCHANGED <<solverVars, condVars, wrapVars, sortVars, facadeVars, ctorVars>>

\* XSpace::update_pspace with n parameters
update_pspace(n) ==
  /\ xs_pc = "ready"
  /\ IF m_dim.nX # 0
     THEN \* assert(m_dim.nX == 0) fails
          /\ xs_pc' = "aborted"
          /\ UNCHANGED <<xs_pspace, xs_data, m_dim>>
     ELSE /\ xs_pspace' = n
          /\ m_dim' = update_dimensions(xs_pspace', xs_qspace, xs_dspace)
          /\ xs_data' = m_dim'.nP
          /\ UNCHANGED xs_pc
  /\ UNCHANGED <<dims, xs_qspace, xs_dspace>>
  /\ xs_last' = NoErase
  /\ UNCHANGED <<solverVars, condVars, wrapVars, sortVars, facadeVars, ctorVars>>

\* XSpace::eraseq(i), i a position of the Q space
eraseq(i) ==
  /\ xs_pc = "ready"
  /\ i < xs_qspace
  /\ xs_qspace' = xs_qspace - 1
  /\ xs_data' = remove_data(xs_data, m_dim.oQ + i)
  /\ m_dim' = update_dimensions(xs_pspace, xs_qspace', xs_dspace)
  /\ UNCHANGED <<dims, xs_pspace, xs_dspace, xs_pc>>
  /\ xs_last' = NoErase
  /\ UNCHANGED <<solverVars, condVars, wrapVars, sortVars, facadeVars, ctorVars>>

\* XSpace::erasep(i), i a position of the P space
erasep(i) ==
  /\ xs_pc = "ready"
  /\ i < xs_pspace
  /\ xs_pspace' = xs_pspace - 1
  /\ xs_data' = remove_data(xs_data, m_dim.oP + i)
  /\ m_dim' = update_dimensions(xs_pspace', xs_qspace, xs_dspace)
  /\ UNCHANGED <<dims, xs_qspace, xs_dspace, xs_pc>>
  /\ xs_last' = NoErase
  /\ UNCHANGED <<solverVars, condVars, wrapVars, sortVars, facadeVars, ctorVars>>

\* XSpace::erased(i), i a position of the D space
erased(i) ==
  /\ xs_pc = "ready"
  /\ i < xs_dspace
  /\ xs_dspace' = xs_dspace - 1
  /\ xs_data' = remove_data(xs_data, m_dim.oD + i)
  /\ m_dim' = update_dimensions(xs_pspace, xs_qspace, xs_dspace')
  /\ UNCHANGED <<dims, xs_pspace, xs_qspace, xs_pc>>
  /\ xs_last' = NoErase
  /\ UNCHANGED <<solverVars, condVars, wrapVars, sortVars, facadeVars, ctorVars>>

\* i - o in size_t arithmetic.  A difference below zero wraps to 2^64 + i - o; it is
\* kept as the negative number i - o, so that adding o again gives i, as it does
\* modulo 2^64.
SizeDifference(i, o) == i - o

\* whether the size_t index k, as SizeDifference gives it, is a position of a
\* container of n elements
IsPosition(k, n) == 0 <= k /\ k < n

\* the tests of XSpace::erase(i), in their order: the block it goes to
EraseBranch(i) ==
  IF m_dim.oP >= i /\ i < m_dim.oP + m_dim.nP THEN "p"
  ELSE IF m_dim.oQ >= i /\ i < m_dim.oQ + m_dim.nQ THEN "q"
  ELSE IF m_dim.oD >= i /\ i < m_dim.oD + m_dim.nD THEN "d"
  ELSE "none"

\* erasep, eraseq or erased called by erase with the index k of a container at
\* offset o.  When k is not a position of the container, the erase of the container
\* is undefined: the call crashes, or the container is left as it is and row and
\* column o + k leave the data.
EraseCalled(space, k, o) ==
  LET size == CASE space = "p" -> xs_pspace
                [] space = "q" -> xs_qspace
                [] space = "d" -> xs_dspace
      left == IF IsPosition(k, size) THEN size - 1 ELSE size
  IN \/ /\ ~IsPosition(k, size)
        /\ xs_pc' = "aborted"
        /\ UNCHANGED <<xs_pspace, xs_qspace, xs_dspace, xs_data, m_dim>>
     \/ /\ xs_pspace' = IF space = "p" THEN left ELSE xs_pspace
        /\ xs_qspace' = IF space = "q" THEN left ELSE xs_qspace
        /\ xs_dspace' = IF space = "d" THEN left ELSE xs_dspace
        /\ xs_data' = remove_data(xs_data, o + k)
        /\ m_dim' = update_dimensions(xs_pspace', xs_qspace', xs_dspace')
        /\ UNCHANGED xs_pc

\* XSpace::erase(i), i an index of the whole subspace
erase(i) ==
  /\ xs_pc = "ready"
  /\ i < m_dim.nX
  /\ xs_last' = [i |-> i, nP |-> xs_pspace, nQ |-> xs_qspace, nD |-> xs_dspace,
                 data |-> xs_data]
  /\ CASE EraseBranch(i) = "p" -> EraseCalled("p", SizeDifference(i, m_dim.oP), m_dim.oP)
       [] EraseBranch(i) = "q" -> EraseCalled("q", SizeDifference(i, m_dim.oQ), m_dim.oQ)
       [] EraseBranch(i) = "d" -> EraseCalled("d", SizeDifference(i, m_dim.oD), m_dim.oD)
       [] OTHER -> UNCHANGED <<xs_pspace, xs_qspace, xs_dspace, xs_data, m_dim, xs_pc>>
  /\ UNCHANGED dims
  /\ UNCHANGED <<solverVars, condVars, wrapVars, sortVars, facadeVars, ctorVars>>

----------------------------------------------------------------------------
(* wrap.h: wrap and find_ref, and remove_elements.  A vector is the sequence of the  *)
(* values of its elements; the element at position i (from 0) of the caller's        *)
(* vector params has address i, and the addresses from Len(params) on belong to      *)
(* elements of other containers.  A reference is the address of what it refers to.   *)

Addresses == 0 .. MaxLen
Values == 0 .. MaxVal
Vectors == UNION {[1 .. n -> Values] : n \in 0 .. MaxLen}

\* wrap(vec): a reference to each element, in the order of the elements
wrap(vec) == [i \in 1 .. Len(vec) |-> i - 1]

\* the value a reference gives access to (elements of other containers hold 0)
Deref(vec, w) == IF w < Len(vec) THEN vec[w + 1] ELSE 0

\* RefersTo comparing the values of the elements
RefersTo_ByValue(w, vec, it) == Deref(vec, w) = Deref(vec, it)

\* std::addressof(w.get()) == std::addressof(*it)
RefersTo(w, vec, it) == w = it

RECURSIVE FindRefFrom(_, _, _, _)
\* the loop of find_ref over [it, end): the index of every element that some
\* reference of wparams refers to
FindRefFrom(wp, vec, it, end) ==
  IF it >= end THEN <<>>
  ELSE IF \E k \in 1 .. Len(wp) : RefersTo(wp[k], vec, it)
       THEN <<it>> \o FindRefFrom(wp, vec, it + 1, end)
       ELSE FindRefFrom(wp, vec, it + 1, end)

\* find_ref(wparams, begin(vec), end(vec))
find_ref(wp, vec) == FindRefFrom(wp, vec, 0, Len(vec))

RECURSIVE RemoveLoop_AtOriginalPosition(_, _, _, _, _)
\* RemoveLoop erasing at the position the element had in the original vector
RemoveLoop_AtOriginalPosition(vec, indices, i, j, n) ==
  IF i >= n THEN vec
  ELSE IF i \in Range(indices)
       THEN RemoveLoop_AtOriginalPosition(RemoveAt(vec, i + 1), indices, i + 1, j, n)
       ELSE RemoveLoop_AtOriginalPosition(vec, indices, i + 1, j + 1, n)

RECURSIVE RemoveLoop(_, _, _, _, _)
\* the loop of remove_elements over the positions i of the original vector; j is the
\* position the element i has in the shrinking copy
RemoveLoop(vec, indices, i, j, n) ==
  IF i >= n THEN vec
  ELSE IF i \in Range(indices)
       THEN RemoveLoop(RemoveAt(vec, j + 1), indices, i + 1, j, n)
       ELSE RemoveLoop(vec, indices, i + 1, j + 1, n)

\* remove_elements(params, indices): a copy of params without the elements at indices
remove_elements(vec, indices) == RemoveLoop(vec, indices, 0, 0, Len(vec))

\* the index vectors a caller passes: distinct valid indices, in any order
IndexLists(n) ==
  {il \in UNION {[1 .. m -> 0 .. n - 1] : m \in 0 .. n} :
     \A a \in 1 .. Len(il), b \in 1 .. Len(il) : a # b => il[a] # il[b]}

NoFound == [called |-> FALSE, wparams |-> <<>>, result |-> <<>>]
NoRemoved == [called |-> FALSE, indices |-> <<>>, result |-> <<>>]

WrapInit ==
  /\ params \in Vectors
  /\ wparams = <<>>
  /\ found = NoFound
  /\ removed = NoRemoved

WrapIdle ==
  /\ params = <<>>
  /\ wparams = <<>>
  /\ found = NoFound
  /\ removed = NoRemoved

\* no call of find_ref or remove_elements has been made yet
NoCallYet == ~found.called /\ ~removed.called

\* wparams = wrap(params)
WrapParams ==
  /\ NoCallYet
  /\ wparams' = wrap(params)
  /\ UNCHANGED <<params, found, removed>>
  /\ UNCHANGED <<solverVars, condVars, dimVars, sortVars, facadeVars, ctorVars>>

\* wparams.erase(wparams.begin() + i)
EraseRef(i) ==
  /\ NoCallYet
  /\ i < Len(wparams)
  /\ wparams' = RemoveAt(wparams, i + 1)
  /\ UNCHANGED <<params, found, removed>>
  /\ UNCHANGED <<solverVars, condVars, dimVars, sortVars, facadeVars, ctorVars>>

\* wparams.insert(wparams.begin() + i, ref): any reference, a second one to the
\* same element and one to an element of another container included
InsertRef(i, ref) ==
  /\ NoCallYet
  /\ i <= Len(wparams)
  /\ Len(wparams) <= MaxLen
  /\ wparams' = SubSeq(wparams, 1, i) \o <<ref>> \o SubSeq(wparams, i + 1, Len(wparams))
  /\ UNCHANGED <<params, found, removed>>
  /\ UNCHANGED <<solverVars, condVars, dimVars, sortVars, facadeVars, ctorVars>>

\* indices = find_ref(wparams, begin(params), end(params))
FindRef ==
  /\ NoCallYet
  /\ found' = [called |-> TRUE, wparams |-> wparams, result |-> find_ref(wparams, params)]
  /\ UNCHANGED <<params, wparams, removed>>
  /\ UNCHANGED <<solverVars, condVars, dimVars, sortVars, facadeVars, ctorVars>>

\* result = remove_elements(params, indices)
RemoveElements(indices) ==
  /\ NoCallYet
  /\ wparams = <<>>
  /\ removed' = [called |-> TRUE, indices |-> indices,
                 result |-> remove_elements(params, indices)]
  /\ UNCHANGED <<params, wparams, found>>
  /\ UNCHANGED <<solverVars, condVars, dimVars, sortVars, facadeVars, ctorVars>>

----------------------------------------------------------------------------
(* diagonalizeSubspaceMatrix: the sort of the eigenpairs.  An eigenvalue is          *)
(* [re, im]; an eigenvector column is named by the position the eigensolver left it  *)
(* at, so that the permutation the sort applies can be read off the result.          *)

Eigenvalues == [re : 0 .. MaxRe, im : 0 .. MaxIm]
UnsortedEigenvalues == UNION {[1 .. n -> Eigenvalues] : n \in 0 .. MaxEig}

\* the comparison of the inner loop, taking l in place of ll also on a tie
RealPartLess_OrEqual(a, b) == a.re <= b.re

\* the comparison of the inner loop: eigval(l).real() < eigval(ll).real()
RealPartLess(a, b) == a.re < b.re

RECURSIVE FirstUnmapped(_, _)
\* for (ll = 0; std::count(map.begin(), map.end(), ll) != 0; ll++);
FirstUnmapped(map, ll) == IF ll \in Range(map) THEN FirstUnmapped(map, ll + 1) ELSE ll

RECURSIVE SmallestUnmapped(_, _, _, _)
\* the loop over l: the position, not yet in map, of the eigenvalue to place next
SmallestUnmapped(val, map, l, ll) ==
  IF l >= Len(val) THEN ll
  ELSE IF l \notin Range(map) /\ RealPartLess(val[l + 1], val[ll + 1])
       THEN SmallestUnmapped(val, map, l + 1, l)
       ELSE SmallestUnmapped(val, map, l + 1, ll)

RECURSIVE SortMap(_, _, _)
\* the loop over k: map[k] is the position the k-th sorted eigenpair is taken from
SortMap(val, map, k) ==
  IF k >= Len(val) THEN map
  ELSE SortMap(val, Append(map, SmallestUnmapped(val, map, 0, FirstUnmapped(map, 0))), k + 1)

\* after the eigensolver: eigenvalues in any order, eigenvector k in column k
SortInit ==
  /\ m_subspaceEigenvalues \in UnsortedEigenvalues
  /\ m_subspaceEigenvectors = Iota(Len(m_subspaceEigenvalues))
  /\ eigval = <<>>
  /\ eigvec = <<>>
  /\ sort_done = FALSE

\* no eigenproblem has been solved
SortIdle == SortInit /\ m_subspaceEigenvalues = <<>>

\* the block marked "sort" of diagonalizeSubspaceMatrix
SortEigenpairs ==
  /\ ~sort_done
  /\ eigval' = m_subspaceEigenvalues
  /\ eigvec' = m_subspaceEigenvectors
  /\ LET map == SortMap(eigval', <<>>, 0)
     IN /\ m_subspaceEigenvalues' = [k \in 1 .. Len(map) |-> eigval'[map[k] + 1]]
        /\ m_subspaceEigenvectors' = [k \in 1 .. Len(map) |-> eigvec'[map[k] + 1]]
  /\ sort_done' = TRUE
  /\ UNCHANGED <<solverVars, condVars, dimVars, wrapVars, facadeVars, ctorVars>>

----------------------------------------------------------------------------
(* The C facade: a stack of instances.  An instance is [id, kind, calls]: the        *)
(* number of the Initialize call that made it, the solver it holds, and the number   *)
(* of calls that have updated this solver, which stands for the solver's state.      *)

SolverKinds == {"LinearEigensystem", "LinearEquations", "NonLinearEquations", "Optimize"}
\* facade operations that update the solver of the instance they act on
UpdatingCalls == {"AddVector", "AddValue", "AddP", "EndIteration", "Solution"}
\* facade operations that read the solver of the instance they act on
ReadingCalls == {"Errors", "Eigenvalues", "SuggestP"}

NoCall == [call |-> "none", id |-> -1, result |-> "ok"]
NoInstance == [id |-> -1, kind |-> "none", calls |-> 0]

\* the instance a facade operation takes: the bottom of the stack
Active_Bottom(stack) == 1

\* auto& instance = instances.top();
Active(stack) == Len(stack)

FacadeInit ==
  /\ instances = <<>>
  /\ n_initialized = 0
  /\ f_last = NoCall
  /\ f_popped = NoInstance
  /\ f_pc = "ready"

\* undefined behaviour of the facade (top() or pop() of an empty stack, a call through
\* the null pointer a failed dynamic_cast gives): the program crashes, or carries on
\* with a corrupted stack
FacadeUndefined(call) ==
  /\ f_pc' \in {"crashed", "corrupt"}
  /\ f_last' = [call |-> call, id |-> -1, result |-> "undefined"]
  /\ UNCHANGED <<instances, n_initialized, f_popped>>

\* IterativeSolver<kind>Initialize
FacadeInitialize(kind) ==
  /\ f_pc = "ready"
  /\ n_initialized < MaxInit
  /\ instances' = Append(instances, [id |-> n_initialized, kind |-> kind, calls |-> 0])
  /\ n_initialized' = n_initialized + 1
  /\ f_last' = [call |-> "Initialize", id |-> n_initialized, result |-> "ok"]
  /\ UNCHANGED <<f_popped, f_pc>>
  /\ UNCHANGED <<solverVars, condVars, dimVars, wrapVars, sortVars, ctorVars>>

\* IterativeSolverFinalize
FacadeFinalize ==
  /\ f_pc = "ready"
  /\ IF instances = <<>>
     THEN FacadeUndefined("Finalize")
     ELSE /\ instances' = SubSeq(instances, 1, Len(instances) - 1)
          /\ f_popped' = instances[Len(instances)]
          /\ f_last' = [call |-> "Finalize", id |-> instances[Len(instances)].id,
                        result |-> "ok"]
          /\ UNCHANGED <<n_initialized, f_pc>>
  /\ UNCHANGED <<solverVars, condVars, dimVars, wrapVars, sortVars, ctorVars>>

\* IterativeSolverAddVector, AddValue, AddP, EndIteration, Solution
FacadeUpdate(call) ==
  /\ f_pc = "ready"
  /\ IF instances = <<>>
     THEN IF call = "AddVector"
          THEN \* throw std::runtime_error("IterativeSolver not initialised properly")
               /\ f_last' = [call |-> call, id |-> -1, result |-> "error"]
               /\ UNCHANGED <<instances, n_initialized, f_popped, f_pc>>
          ELSE FacadeUndefined(call)
     ELSE LET a == Active(instances)
          IN IF call = "AddValue" /\ instances[a].kind # "Optimize"
             THEN FacadeUndefined(call)
             ELSE /\ instances[a].calls < MaxCalls
                  /\ instances' = [instances EXCEPT ![a].calls = @ + 1]
                  /\ f_last' = [call |-> call, id |-> instances[a].id, result |-> "ok"]
                  /\ UNCHANGED <<n_initialized, f_popped, f_pc>>
  /\ UNCHANGED <<solverVars, condVars, dimVars, wrapVars, sortVars, ctorVars>>

\* IterativeSolverErrors, Eigenvalues, SuggestP
FacadeRead(call) ==
  /\ f_pc = "ready"
  /\ IF instances = <<>>
     THEN FacadeUndefined(call)
     ELSE /\ f_last' = [call |-> call, id |-> instances[Active(instances)].id,
                        result |-> "ok"]
          /\ UNCHANGED <<instances, n_initialized, f_popped, f_pc>>
  /\ UNCHANGED <<solverVars, condVars, dimVars, wrapVars, sortVars, ctorVars>>

----------------------------------------------------------------------------
(* IterativeSolver.h: the constructors of LinearEquations. A right-hand side is the  *)
(* value of its vector; a solver is the configuration the constructor leaves.        *)

Constructors == {"constVectorRefSet", "vectorSet", "T"}

\* what the constructor of the base class leaves
IterativeSolverBase ==
  [m_linear |-> FALSE, m_residual_eigen |-> FALSE, m_residual_rhs |-> FALSE,
   m_augmented_hessian |-> 0, m_rhs |-> <<>>]

RECURSIVE emplace_back_each(_, _)
emplace_back_each(m_rhs, rhs) ==
  IF rhs = <<>> THEN m_rhs
  ELSE emplace_back_each(Append(m_rhs, Head(rhs)), Tail(rhs))

\* m_rhs.clear(), then a copy of every right-hand side
addEquations(solver, rhs) == [solver EXCEPT !.m_rhs = emplace_back_each(<<>>, rhs)]

\* LinearEquations(constVectorRefSet rhs, scalar_type augmented_hessian)
LinearEquations_constVectorRefSet(rhs, augmented_hessian) ==
  addEquations([IterativeSolverBase EXCEPT !.m_linear = TRUE,
                                           !.m_residual_eigen = TRUE,
                                           !.m_residual_rhs = TRUE,
                                           !.m_augmented_hessian = augmented_hessian],
               rhs)

\* LinearEquations(const vectorSet& rhs, scalar_type augmented_hessian)
LinearEquations_vectorSet(rhs, augmented_hessian) ==
  LET rhsr == [k \in 1 .. Len(rhs) |-> rhs[k]]
  IN addEquations([IterativeSolverBase EXCEPT !.m_linear = TRUE,
                                              !.m_residual_rhs = TRUE,
                                              !.m_augmented_hessian = augmented_hessian],
                  rhsr)

\* LinearEquations(const T& rhs, scalar_type augmented_hessian)
LinearEquations_T(rhs, augmented_hessian) ==
  LET rhsr == <<rhs>>
  IN addEquations([IterativeSolverBase EXCEPT !.m_linear = TRUE,
                                              !.m_residual_rhs = TRUE,
                                              !.m_augmented_hessian = augmented_hessian],
                  rhsr)

\* addVector: whether a trial vector is scaled to unit length
NormalisesTrialVectors(solver) == solver.m_residual_eigen

\* doInterpolation: whether the eigenvalue times the solution is taken from the residual
ShiftsResidual(solver) ==
  solver.m_residual_eigen \/ (solver.m_residual_rhs /\ solver.m_augmented_hessian > 0)

\* buildSubspace: the matrix whose singular values decide on a deletion
singularTester(solver) ==
  IF solver.m_residual_eigen THEN "m_subspaceOverlap" ELSE "m_subspaceMatrix"

CtorInit ==
  /\ le_rhs \in UNION {[1 .. n -> 0 .. MaxVal] : n \in 0 .. MaxRhs}
  /\ le_augmented_hessian \in 0 .. MaxAug
  /\ le_solvers = <<>>

CtorIdle == CtorInit /\ le_rhs = <<>> /\ le_augmented_hessian = 0

\* one of the constructors is called with the right-hand sides and the
\* augmented_hessian; the one that takes a single vector, when there is one
Construct(c) ==
  /\ c \notin DOMAIN le_solvers
  /\ c = "T" => Len(le_rhs) = 1
  /\ le_solvers' = le_solvers @@ (c :>
       CASE c = "constVectorRefSet" ->
              LinearEquations_constVectorRefSet(le_rhs, le_augmented_hessian)
         [] c = "vectorSet" -> LinearEquations_vectorSet(le_rhs, le_augmented_hessian)
         [] c = "T" -> LinearEquations_T(le_rhs[1], le_augmented_hessian))
  /\ UNCHANGED <<le_rhs, le_augmented_hessian>>
  /\ UNCHANGED <<solverVars, condVars, dimVars, wrapVars, sortVars, facadeVars>>

----------------------------------------------------------------------------
(* The iterative solver *)

Init == SolverInit /\ CondIdle /\ DimInit /\ WrapIdle /\ SortIdle /\ FacadeInit /\ CtorIdle

Next ==
  \/ \E np \in 0 .. MaxBuf : AddVectorEnter(np)
  \/ BuildSubspacePass
  \/ AddVectorFinish
  \/ \E roots \in RootLists(m_roots) : SolutionEnter(roots)
  \/ SolutionFinish
  \/ \E k \in 1 .. MaxP, np \in 1 .. MaxBuf : AddPEnter(k, np)
  \/ AddPFinish
  \/ EndIteration

Spec == Init /\ [][Next]_vars

----------------------------------------------------------------------------
(* check_conditioning, called once on a subspace; the loop keeps running as long    *)
(* as its condition holds                                                           *)

SolverIdle == SolverInit /\ variant = "Eigen" /\ m_roots = 0

InitCond == SolverIdle /\ CondInit /\ DimInit /\ WrapIdle /\ SortIdle /\ FacadeInit /\ CtorIdle

NextCond == CheckConditioningWhile \/ CheckConditioningBody

SpecCond == InitCond /\ [][NextCond]_vars /\ WF_vars(NextCond)

----------------------------------------------------------------------------
(* Dimensions values and the XSpace of P, Q and D spaces *)

InitDim == SolverIdle /\ CondIdle /\ DimInit /\ WrapIdle /\ SortIdle /\ FacadeInit /\ CtorIdle

NextDim ==
  \/ \E np \in 0 .. MaxDim, nq \in 0 .. MaxDim, nr \in 0 .. MaxDim, nc \in 0 .. MaxDim :
       ConstructDimensions(np, nq, nr, nc)
  \/ \E n \in 0 .. MaxDim : update_qspace(n)
  \/ \E n \in 0 .. MaxDim : update_dspace(n)
  \/ \E n \in 0 .. MaxDim : update_pspace(n)
  \/ \E i \in 0 .. MaxDim : eraseq(i)
  \/ \E i \in 0 .. MaxDim : erasep(i)
  \/ \E i \in 0 .. MaxDim : erased(i)
  \/ \E i \in 0 .. 3 * MaxDim : erase(i)

SpecDim == InitDim /\ [][NextDim]_vars

----------------------------------------------------------------------------
(* wrap, find_ref and remove_elements on the vectors a caller may hold *)

InitWrap == SolverIdle /\ CondIdle /\ DimInit /\ WrapInit /\ SortIdle /\ FacadeInit /\ CtorIdle

NextWrap ==
  \/ WrapParams
  \/ \E i \in 0 .. MaxLen : EraseRef(i)
  \/ \E i \in 0 .. MaxLen, ref \in Addresses : InsertRef(i, ref)
  \/ FindRef
  \/ \E indices \in IndexLists(Len(params)) : RemoveElements(indices)

SpecWrap == InitWrap /\ [][NextWrap]_vars

----------------------------------------------------------------------------
(* the sort of the eigenpairs, on every list of eigenvalues the eigensolver may leave *)

InitSort == SolverIdle /\ CondIdle /\ DimInit /\ WrapIdle /\ SortInit /\ FacadeInit /\ CtorIdle

NextSort == SortEigenpairs

SpecSort == InitSort /\ [][NextSort]_vars

----------------------------------------------------------------------------
(* the C facade, called in any order *)

InitFacade == SolverIdle /\ CondIdle /\ DimInit /\ WrapIdle /\ SortIdle /\ FacadeInit /\ CtorIdle

NextFacade ==
  \/ \E kind \in SolverKinds : FacadeInitialize(kind)
  \/ FacadeFinalize
  \/ \E call \in UpdatingCalls : FacadeUpdate(call)
  \/ \E call \in ReadingCalls : FacadeRead(call)

SpecFacade == InitFacade /\ [][NextFacade]_vars

----------------------------------------------------------------------------
(* the constructors of LinearEquations, on every list of right-hand sides *)

InitCtor == SolverIdle /\ CondIdle /\ DimInit /\ WrapIdle /\ SortIdle /\ FacadeInit /\ CtorInit

NextCtor == \E c \in Constructors : Construct(c)

SpecCtor == InitCtor /\ [][NextCtor]_vars

----------------------------------------------------------------------------
(* Properties *)

AfterAddVector == pc = "idle" /\ last = "addVector"
InWorkingSet(root) == \E k \in 1 .. Len(m_working_set) : m_working_set[k] = root
Unconverged == {i \in 1 .. Len(m_errors) : m_errors[i] >= m_thresh}
AllConverged(errs) ==
  /\ m_roots >= 1
  /\ Len(errs) = m_roots
  /\ \A i \in 1 .. Len(errs) : errs[i] < m_thresh
SolutionPositions(q, root) == {i \in 1 .. Len(q) : q[i].kind = "s" /\ q[i].root = root}
NewlyRecorded(root) == m_q_solutions[root] = NoKey /\ m_q_solutions'[root] # NoKey

C3_Original == AfterAddVector => QSize(m_qspace) <= m_maxQ

\* C4: in a linear variant a root's record in m_q_solutions is made once and never
\* changed; it is made by the add_vector call in which the root's error is below the
\* threshold for the first time, together with exactly one solution entry of Q; each
\* add_vector call appends as many solution entries as it records roots, so a root that
\* converges again adds none.
C4_RecordedOnce ==
  [][/\ \A root \in Roots :
          /\ m_q_solutions[root] # NoKey => m_q_solutions'[root] = m_q_solutions[root]
          /\ NewlyRecorded(root) =>
               /\ Linear(variant) /\ pc = "solve" /\ ctx.op = "addVector"
               /\ m_errors'[root + 1] < m_thresh
               /\ \A i \in 1 .. Len(m_qspace) : m_qspace[i].key # m_q_solutions'[root]
               /\ \E i \in SolutionPositions(m_qspace', root) :
                    m_qspace'[i].key = m_q_solutions'[root]
          /\ Cardinality(SolutionPositions(m_qspace', root)) <= 1
          /\ (pc = "solve" /\ last' = "addVector" /\ Linear(variant) /\ root < m_roots
                /\ m_errors'[root + 1] < m_thresh) => m_q_solutions'[root] # NoKey
     /\ (pc = "solve" /\ ctx.op = "addVector") =>
          Len(m_qspace') = Len(m_qspace) + Cardinality({root \in Roots : NewlyRecorded(root)})
    ]_vars

\* a root recorded by an earlier call has converged again in the call that just returned
C4_Witness ==
  /\ AfterAddVector
  /\ ctx.op = "addVector"
  /\ SolutionPositions(ctx.q0, 0) # {}
  /\ m_q_solutions[0] # NoKey
  /\ m_errors[1] < m_thresh

C6_Original ==
  [][(pc = "solve" /\ ctx.op = "solution" /\ last = "addVector"
        /\ m_working_set = ctx.saved /\ m_working_set # <<>> /\ last' = "solution") =>
       interpolated' = interpolated]_vars

\* C7 as stated: when conditioning finishes, the smallest singular value is above the
\* threshold in force or there is no eviction candidate.
C7_Original == cond.tested => (cond.stable \/ cond.ncand = 0)

\* C7 amended: when conditioning finishes, the smallest singular value is above the
\* threshold in force, or no eviction candidate has a coefficient above 1e-3 in the
\* most singular vector (as when there is no candidate).
C7_ConditioningExit == cond.tested => (cond.stable \/ ~cond.hit)

\* conditioning finished on a singular subspace that still has candidates
C7_Witness == cond.tested /\ ~cond.stable /\ cond.ncand > 0 /\ ~cond.hit

\* C8: check_conditioning reaches its exit.
C8_Original == <>(c_pc = "done")

\* C9: the record of each converged root points at exactly one entry of Q, and that
\* entry is the solution of this root: buildSubspace never evicts it, and evictions of
\* other entries do not make the record point elsewhere.
C9_SolutionsKept ==
  \A root \in Roots :
    m_q_solutions[root] # NoKey =>
      /\ Cardinality({i \in 1 .. Len(m_qspace) : m_qspace[i].key = m_q_solutions[root]}) = 1
      /\ \A i \in 1 .. Len(m_qspace) :
           m_qspace[i].key = m_q_solutions[root] =>
             (m_qspace[i].kind = "s" /\ m_qspace[i].root = root)

\* the solution entry of a converged root has moved down after an eviction before it
C9_Witness ==
  /\ pc = "idle"
  /\ \E root \in Roots, i \in 1 .. Len(m_qspace) :
       /\ m_q_solutions[root] # NoKey
       /\ m_qspace[i].key = m_q_solutions[root]
       /\ m_qspace[i].key > i - 1

PromotedByLastCall ==
  {root \in Roots : /\ m_q_solutions[root] # NoKey
                    /\ \A i \in 1 .. Len(ctx.q0) : ctx.q0[i].key # m_q_solutions[root]}
NormalReturns == {"none", "addVector", "addVectorEarly", "addP", "solution", "endIteration"}

\* C11: in add_vector, add_p and solution, called after operations that returned
\* normally, the nR buildSubspace assembles with (the size of the R-R block) equals the
\* nR doInterpolation uses (the number of current R vectors), so the nQ derived by
\* doInterpolation equals the size of the Q space used at assembly.
C11_Original ==
  (pc = "solve" /\ ctx.last0 \in NormalReturns) =>
    /\ m_s_rr = m_current_r
    /\ InterpolationNQ(solveReducedProblem(variant, m_pspace, QSize(m_qspace), m_s_rr, m_roots),
                       m_pspace, m_current_r) = QSize(m_qspace)

C13_Original ==
  [][m_best_f # NoValue => (m_best_f' # NoValue /\ m_best_f' <= m_best_f)]_vars

\* the step of the Wolfe test was accepted through the shortcut of the interpolant
AcceptedByShortcut(t) ==
  /\ t.found_min
  /\ ~WrongWay(t.g0, t.g1, t.alpha)
  /\ ~AlphaBeyondGrow(t.alpha)
  /\ AlphaNearOne(t.alpha)
PassesWolfe(t) == Wolfe_1(t.f0, t.f1, t.g0) /\ Wolfe_2(m_strong_Wolfe, t.g0, t.g1)

\* C14 as stated: every step of Optimize accepted while Q is not empty passes both
\* Wolfe conditions or is the shortcut of an interpolated step factor close to 1.
C14_Original ==
  (variant = "Optimize" /\ wolfe_test.n > 0 /\ Accepted(wolfe_test.outcome)) =>
    (PassesWolfe(wolfe_test) \/ AcceptedByShortcut(wolfe_test))

\* C14 amended: every step of Optimize accepted while Q is not empty has a projected
\* gradient g1 below the convergence threshold, or passes both Wolfe conditions, or is
\* the shortcut of an interpolated step factor close to 1; and a step that is none of
\* these is not accepted: a line-search step length is pending.
C14_AcceptedSteps ==
  (variant = "Optimize" /\ wolfe_test.n > 0) =>
    LET allowed == \/ wolfe_test.g1 < m_thresh
                   \/ PassesWolfe(wolfe_test)
                   \/ AcceptedByShortcut(wolfe_test)
    IN /\ Accepted(wolfe_test.outcome) <=> allowed
       /\ pc = "idle" => (m_linesearch_steplength = 0 <=> allowed)

\* a step was accepted for its small projected gradient although it fails Wolfe
C14_Witness ==
  /\ variant = "Optimize"
  /\ AfterAddVector
  /\ wolfe_test.n > 0
  /\ Accepted(wolfe_test.outcome)
  /\ wolfe_test.g1 < m_thresh
  /\ ~PassesWolfe(wolfe_test)

\* the difference vector addVector appends at its start
PendingDifference == [key |-> m_index - 1, kind |-> "d", root |-> 0]
EndsInLineSearch == AfterAddVector /\ variant = "Optimize" /\ m_linesearch_steplength # 0

\* C15 as stated: when add_value on a non-empty Q ends in a line-search step, the Q
\* space holds on return exactly the entries it held on entry.
C15_Original == (EndsInLineSearch /\ ctx.q0 # <<>>) => m_qspace = ctx.q0

\* C15 amended: when add_value ends in a line-search step, the caller is asked for a
\* new evaluation (the call returns 1 and the solution is not nullified), and the Q
\* space is not empty; it holds on return the entries it held on entry, less the ones
\* the conditioning evicted, in their order, followed by the difference vector the call
\* appended at its start unless that one was evicted.
C15_LineSearchQ ==
  EndsInLineSearch =>
    /\ ret = 1
    /\ ~m_nullify_solution_before_update
    /\ QSize(m_qspace) > 0
    /\ Range(m_qspace) \subseteq Range(ctx.q0) \cup {PendingDifference}
    /\ \A i \in 1 .. Len(ctx.q0) : ctx.q0[i].key < PendingDifference.key
    /\ \A i \in 1 .. Len(m_qspace) - 1 : m_qspace[i].key < m_qspace[i + 1].key

\* an add_value entered with one Q entry has ended in a line-search step with two
C15_Witness ==
  /\ EndsInLineSearch
  /\ ctx.q0 # <<>>
  /\ m_qspace = Append(ctx.q0, PendingDifference)

\* C16: add_p returns the size of the working set.
C16_Original == (pc = "idle" /\ last = "addP") => ret = Len(m_working_set)

\* C17: end_iteration returns true exactly when errors() is not empty and the error of
\* every one of the nRoots roots is below the convergence threshold; so it returns
\* false before any add_vector.  Optimize applies the same test after its update.
C17_EndIteration ==
  (pc = "idle" /\ last = "endIteration") =>
    /\ ret \in {0, 1}
    /\ ret = 1 <=> /\ m_errors # <<>>
                   /\ Len(m_errors) = m_roots
                   /\ \A i \in 1 .. Len(m_errors) : m_errors[i] < m_thresh
    /\ m_iterations = 0 => ret = 0

\* end_iteration has returned true for a solver of two roots
C17_Witness ==
  /\ pc = "idle"
  /\ last = "endIteration"
  /\ ret = 1
  /\ m_roots = 2

\* the positions of params that some reference of wp refers to
Referenced(wp) == {i \in 0 .. Len(params) - 1 : \E k \in 1 .. Len(wp) : wp[k] = i}

\* C18: find_ref returns the positions of the elements of params that are referred to,
\* each once and in ascending order, whatever the order of the references, repeated
\* references and equal values of other elements; for wrap(params) these are all the
\* positions 0 .. len - 1.
C18_FindRef ==
  found.called =>
    /\ found.result = SetToSeq(Referenced(found.wparams))
    /\ found.wparams = wrap(params) => found.result = Iota(Len(params))

\* find_ref was called with a repeated reference, references out of order, and an
\* element that is not referred to but equal in value to one that is
C18_Witness ==
  /\ found.called
  /\ \E a \in 1 .. Len(found.wparams), b \in 1 .. Len(found.wparams) :
       a < b /\ found.wparams[a] = found.wparams[b]
  /\ \E a \in 1 .. Len(found.wparams), b \in 1 .. Len(found.wparams) :
       a < b /\ found.wparams[a] > found.wparams[b]
  /\ \E i \in Referenced(found.wparams), j \in 0 .. Len(params) - 1 :
       j \notin Referenced(found.wparams) /\ params[i + 1] = params[j + 1]

\* C19: remove_elements(seq, indices) returns the elements of seq whose positions are
\* not in indices, in their order; its length is len(seq) - |indices|.
C19_RemoveElements ==
  removed.called =>
    LET kept == SetToSeq({i \in 0 .. Len(params) - 1 : i \notin Range(removed.indices)})
    IN /\ removed.result = [k \in 1 .. Len(kept) |-> params[kept[k] + 1]]
       /\ Len(removed.result) = Len(params) - Len(removed.indices)

\* two elements, given in descending order, were removed from a vector of three
\* elements that are not all equal
C19_Witness ==
  /\ removed.called
  /\ Len(params) = 3
  /\ Len(removed.indices) = 2
  /\ removed.indices[1] > removed.indices[2]
  /\ params[1] # params[3]

\* C20 as stated: the last doInterpolation add_vector runs before it returns is the one
\* in action-only mode.
C20_Original == AfterAddVector => (steps # <<>> /\ steps[Len(steps)] = "action")

StepPositions(name) == {i \in 1 .. Len(steps) : steps[i] = name}

\* C20 amended: add_vector sets the errors, then interpolates in action-only mode, then
\* promotes the converged roots and stashes the others, and last interpolates in full;
\* a linear solver interpolates in full once more, before it sets the errors.
C20_InterpolationOrder ==
  AfterAddVector =>
    /\ Len(steps) = (IF Linear(variant) THEN 5 ELSE 4)
    /\ steps[Len(steps)] = "full"
    /\ \E e \in StepPositions("errors"), a \in StepPositions("action"),
          p \in StepPositions("promote") :
         /\ StepPositions("errors") = {e}
         /\ StepPositions("action") = {a}
         /\ StepPositions("promote") = {p}
         /\ e < a /\ a < p /\ p < Len(steps)
         /\ StepPositions("full") = (IF Linear(variant) THEN {1, Len(steps)} ELSE {Len(steps)})
         /\ Linear(variant) => e = 2

\* a linear solver has returned from an add_vector that promoted a root
C20_Witness ==
  /\ AfterAddVector
  /\ Linear(variant)
  /\ PromotedByLastCall # {}

\* C21 as stated: the Q entry a pass of buildSubspace evicts is a candidate whose
\* coefficient in the most singular vector is above 1e-3, and no candidate has a
\* larger coefficient than the evicted one.
C21_Original == cond.evicted => (cond.coef > CoefThreshold /\ cond.coef >= cond.best)

\* C22: the sort of the eigenpairs outputs a permutation of its input, ordered by
\* non-decreasing real part of the eigenvalue; each eigenvector column stays with its
\* eigenvalue, and eigenpairs with equal real parts keep their relative order.
C22_SortedEigenpairs ==
  sort_done =>
    LET n == Len(eigval)
    IN /\ Len(m_subspaceEigenvalues) = n
       /\ Len(m_subspaceEigenvectors) = n
       /\ \A j \in 1 .. n :
            Cardinality({k \in 1 .. n : m_subspaceEigenvectors[k] = eigvec[j]}) = 1
       /\ \A k \in 1 .. n :
            m_subspaceEigenvalues[k] = eigval[m_subspaceEigenvectors[k] + 1]
       /\ \A k \in 1 .. n - 1 :
            /\ m_subspaceEigenvalues[k].re <= m_subspaceEigenvalues[k + 1].re
            /\ m_subspaceEigenvalues[k].re = m_subspaceEigenvalues[k + 1].re =>
                 m_subspaceEigenvectors[k] < m_subspaceEigenvectors[k + 1]

\* three eigenpairs were sorted, the first two with the same real part and different
\* imaginary parts, the third with a smaller real part
C22_Witness ==
  /\ sort_done
  /\ Len(eigval) = 3
  /\ eigval[1].re = eigval[2].re
  /\ eigval[1].im # eigval[2].im
  /\ eigval[3].re < eigval[1].re
  /\ m_subspaceEigenvectors = <<2, 0, 1>>

\* C23 as stated: XSpace::erase(i) removes the entry of the block that contains index
\* i: the P vector i - oP, the Q vector i - oQ or the D vector i - oD; the size of
\* that block drops by one, the other blocks keep their sizes, and row and column i
\* leave H and S.
C23_Original ==
  xs_last # NoErase =>
    LET i == xs_last.i
        inP == i < xs_last.nP
        inQ == xs_last.nP <= i /\ i < xs_last.nP + xs_last.nQ
        inD == xs_last.nP + xs_last.nQ <= i
    IN /\ xs_pc = "ready"
       /\ xs_pspace = IF inP THEN xs_last.nP - 1 ELSE xs_last.nP
       /\ xs_qspace = IF inQ THEN xs_last.nQ - 1 ELSE xs_last.nQ
       /\ xs_dspace = IF inD THEN xs_last.nD - 1 ELSE xs_last.nD
       /\ xs_data = xs_last.data - 1

\* C24 as stated: P vectors are added at most once, while the subspace is empty: an
\* addP called when a P or Q vector is present does not append to the P space.
C24_Original ==
  [][(pc = "idle" /\ pc' = "build" /\ ctx'.op = "addP"
        /\ (m_pspace > 0 \/ QSize(m_qspace) > 0))
       => m_pspace' = m_pspace]_vars

\* C25: the facade keeps its instances in a stack and only the top one is active.
\* Every Initialize call pushes a new instance; every operation acts on the instance
\* initialised last among those not finalised and leaves the others as they are;
\* IterativeSolverFinalize pops exactly that instance, so that the one initialised
\* before it is active again, in the state the nested calls left untouched; AddVector
\* with no instance raises an error.
C25_OnlyTopActive ==
  [][f_pc' = "ready" =>
       LET n == Len(instances)
       IN CASE f_last'.call = "Initialize" ->
                 /\ Len(instances') = n + 1
                 /\ SubSeq(instances', 1, n) = instances
                 /\ instances'[n + 1].id = f_last'.id
                 /\ \A i \in 1 .. n : instances[i].id # f_last'.id
            [] f_last'.call = "Finalize" ->
                 /\ n > 0
                 /\ f_last'.id = instances[n].id
                 /\ f_popped' = instances[n]
                 /\ instances' = SubSeq(instances, 1, n - 1)
            [] f_last'.call \in UpdatingCalls \cup ReadingCalls ->
                 IF n = 0
                 THEN f_last'.call = "AddVector" /\ f_last'.result = "error"
                      /\ instances' = instances
                 ELSE /\ f_last'.id = instances[n].id
                      /\ \A i \in 1 .. n : instances[i].id < instances[n].id \/ i = n
                      /\ Len(instances') = n
                      /\ SubSeq(instances', 1, n - 1) = SubSeq(instances, 1, n - 1)
                      /\ instances'[n].id = instances[n].id
                      /\ f_last'.call \in UpdatingCalls => instances'[n] # instances[n]
            [] OTHER -> TRUE]_vars

\* after a nested instance that had received calls was finalised, AddVector has
\* acted on the instance initialised before it, which is the only one left
C25_Witness ==
  /\ f_pc = "ready"
  /\ f_last.call = "AddVector"
  /\ f_popped.calls > 0
  /\ Len(instances) = 1
  /\ instances[1].id < f_popped.id
  /\ instances[1].calls = 2

\* end_iteration has just completed the step of an add_value of Optimize
AfterEndIteration ==
  /\ pc = "idle" /\ last = "endIteration" /\ variant = "Optimize" /\ ctx.op = "addVector"

C27_Original ==
  (AfterAddVector /\ Linear(variant) /\ ctx.last0 = "addVector") =>
    /\ ret <= Len(ctx.saved)
    /\ Range(m_working_set) \subseteq Range(ctx.saved)

\* C28 as stated: when a call of solution ends, normally or by an error raised during
\* the interpolation, the working set, the errors and the Q space are what they were
\* immediately before the call.
C28_Original ==
  (pc = "idle" /\ ctx.op = "solution" /\ last \in {"solution", "solutionThrow"}) =>
    /\ m_working_set = ctx.saved
    /\ m_errors = ctx.errs0
    /\ m_qspace = ctx.q0

\* C29 as stated: whenever add_vector gets to its pending solutions and there are
\* some, m_last_d and m_last_hd have as many entries as the working set; and on every
\* normal return of add_vector m_last_d has one entry for each root of the working set.
C29_Original ==
  /\ [][(m_iterations' = m_iterations + 1 /\ m_last_d # <<>>) =>
          (Len(m_last_d) = Len(m_working_set') /\ Len(m_last_hd) = Len(m_working_set'))]_vars
  /\ [](AfterAddVector =>
          (Len(m_last_d) = Len(m_working_set)
             /\ \A k \in 1 .. Len(m_working_set) : m_last_d[k].root = m_working_set[k]))

----------------------------------------------------------------------------
\* C30: the three constructors of LinearEquations leave the solver in the same
\* configuration: any two solvers made from the same arguments have the same
\* m_linear, m_residual_eigen, m_residual_rhs, m_augmented_hessian and stored
\* right-hand sides, and so normalise trial vectors, shift the residual and pick the
\* matrix of the singularity test alike. The statement as written.
C30_Original ==
  \A c1 \in DOMAIN le_solvers : \A c2 \in DOMAIN le_solvers :
    /\ le_solvers[c1] = le_solvers[c2]
    /\ NormalisesTrialVectors(le_solvers[c1]) = NormalisesTrialVectors(le_solvers[c2])
    /\ ShiftsResidual(le_solvers[c1]) = ShiftsResidual(le_solvers[c2])
    /\ singularTester(le_solvers[c1]) = singularTester(le_solvers[c2])

============================================================================
